---- MODULE Spec2Model ----
(***************************************************************************)
(* Layer store of the collage editor (src/app/page.tsx, useStore).         *)
(* The store holds the ordered layer list and the selection; its five      *)
(* operations are modelled as the zustand updater functions compute them.  *)
(* The page component's handleSubmit and the relay route handler           *)
(* (src/app/api/generate-image/route.ts) are modelled step by step.        *)
(***************************************************************************)
EXTENDS Integers, Sequences, FiniteSets, TLC

VARIABLES layers, selectedLayerId, lastOp, loading, submit, relay

vars == <<layers, selectedLayerId, lastOp, loading, submit, relay>>

\* the state outside the store: the page component's loading flag, its
\* running handleSubmit call, and the relay route handler
outside == <<loading, submit, relay>>

----------------------------------------------------------------------------
(* Bounds of the exploration *)

\* largest collection explored
MaxLayers == 3

----------------------------------------------------------------------------
(* JavaScript values *)

\* number | null : null is the empty option, Some(v) a number
null == <<>>
Some(v) == <<v>>

\* the value of a missing array element / property; under object spread
\* ({...undefined}) it contributes no field
undefined == [f \in {} |-> 0]

\* object spread {...a, ...b}
Spread(a, b) ==
  [f \in (DOMAIN a) \cup (DOMAIN b) |-> IF f \in DOMAIN b THEN b[f] ELSE a[f]]

\* layer.id, undefined when the object has no id property
IdOf(l) == IF "id" \in DOMAIN l THEN Some(l.id) ELSE null

\* Array.prototype.splice: normalised start index
SpliceStart(len, start) ==
  IF start < 0 THEN (IF len + start < 0 THEN 0 ELSE len + start)
  ELSE (IF start > len THEN len ELSE start)

\* Array.prototype.splice(start, 1): the removed elements
SpliceRemoved(s, start) ==
  LET a == SpliceStart(Len(s), start)
  IN IF a < Len(s) THEN <<s[a + 1]>> ELSE <<>>

\* Array.prototype.splice(start, 1): the array afterwards
SpliceDelete(s, start) ==
  LET a == SpliceStart(Len(s), start)
  IN IF a < Len(s) THEN SubSeq(s, 1, a) \o SubSeq(s, a + 2, Len(s)) ELSE s

\* Array.prototype.splice(start, 0, item): the array afterwards
SpliceInsert(s, start, item) ==
  LET a == SpliceStart(Len(s), start)
  IN SubSeq(s, 1, a) \o <<item>> \o SubSeq(s, a + 1, Len(s))

----------------------------------------------------------------------------
(* The updater functions of the store *)

\* addLayer that stores the zIndex the caller passed
addLayerFn_KeepsPassedZ(ls, layer) ==
  <<layer>> \o ls

\* addLayer: [{ ...layer, zIndex: state.layers.length }, ...state.layers]
addLayerFn(ls, layer) ==
  <<Spread(layer, [zIndex |-> Len(ls)])>> \o ls

\* updateLayer without the id test: every layer is merged with the updates
updateLayerFn_AllLayers(ls, id, updates) ==
  [k \in 1..Len(ls) |-> Spread(ls[k], updates)]

\* updateLayer with the id test inverted (!== for ===)
updateLayerFn_Inverted(ls, id, updates) ==
  [k \in 1..Len(ls) |->
     IF IdOf(ls[k]) # Some(id) THEN Spread(ls[k], updates) ELSE ls[k]]

\* updateLayer: layers.map(l => l.id === id ? { ...l, ...updates } : l)
updateLayerFn(ls, id, updates) ==
  [k \in 1..Len(ls) |->
     IF IdOf(ls[k]) = Some(id) THEN Spread(ls[k], updates) ELSE ls[k]]

\* reorderLayers that numbers zIndex by index instead of length - 1 - index
reorderLayersFn_AscendingZ(ls, startIndex, endIndex) ==
  LET removed == SpliceRemoved(ls, startIndex)
      reorderedItem == IF Len(removed) > 0 THEN removed[1] ELSE undefined
      newLayers == SpliceInsert(SpliceDelete(ls, startIndex), endIndex, reorderedItem)
  IN [k \in 1..Len(newLayers) |-> Spread(newLayers[k], [zIndex |-> k - 1])]

\* reorderLayers that exchanges the two positions instead of moving one item
reorderLayersFn_Swap(ls, startIndex, endIndex) ==
  LET newLayers == [k \in 1..Len(ls) |->
                      IF k = startIndex + 1 THEN ls[endIndex + 1]
                      ELSE IF k = endIndex + 1 THEN ls[startIndex + 1]
                      ELSE ls[k]]
  IN [k \in 1..Len(newLayers) |->
        Spread(newLayers[k], [zIndex |-> Len(newLayers) - 1 - (k - 1)])]

\* reorderLayers: splice out, splice in, renumber zIndex from the top
reorderLayersFn(ls, startIndex, endIndex) ==
  LET removed == SpliceRemoved(ls, startIndex)
      reorderedItem == IF Len(removed) > 0 THEN removed[1] ELSE undefined
      newLayers == SpliceInsert(SpliceDelete(ls, startIndex), endIndex, reorderedItem)
  IN [k \in 1..Len(newLayers) |->
        Spread(newLayers[k], [zIndex |-> Len(newLayers) - 1 - (k - 1)])]

\* deleteSelectedLayer with the filter test inverted (=== for !==)
deleteSelectedFn_Inverted(ls, sel) ==
  LET Keep(l) == IdOf(l) = sel
  IN SelectSeq(ls, Keep)

\* deleteSelectedLayer: layers.filter(l => l.id !== state.selectedLayerId)
deleteSelectedFn(ls, sel) ==
  LET Keep(l) == IdOf(l) # sel
  IN SelectSeq(ls, Keep)

----------------------------------------------------------------------------
(* Inputs *)

\* ids a caller may hand to the store (Date.now() values in handleSubmit)
Ids == 1..MaxLayers

\* the layer object handleSubmit builds; z is the zIndex the caller passes
NewLayer(id, z) ==
  [id |-> id, type |-> "image", src |-> "url", name |-> "Generated Image",
   width |-> 200, height |-> 200, x |-> 0, y |-> 0, zIndex |-> z]

\* zIndex values a caller may pass to addLayer
PassedZ == {0, MaxLayers + 1}

\* geometry updates: a drag stop (handleDragStop), a resize (handleResize)
GeometryUpdates ==
  { [x |-> 10, y |-> 10],
    [width |-> 100, height |-> 100, x |-> 0, y |-> 0] }

\* the layer still has the geometry handleSubmit gave it
InitialGeometry(l) ==
  l.x = 0 /\ l.y = 0 /\ l.width = 200 /\ l.height = 200

\* ids of the layers of a collection
LayerIds(ls) == {ls[k].id : k \in {j \in 1..Len(ls) : "id" \in DOMAIN ls[j]}}

\* the selection values that name a layer of the collection
PresentIds(ls) == {Some(i) : i \in LayerIds(ls)}

----------------------------------------------------------------------------
(* State machine: the store driven through its five operations.            *)
(* lastOp records the call just executed and its arguments; for reorder    *)
(* and delete also what the call read of the state it started from.        *)

Init ==
  /\ layers = <<>>
  /\ selectedLayerId = null
  /\ lastOp = [op |-> "init"]
  /\ loading = FALSE
  /\ submit = [pc |-> "idle"]
  /\ relay = [pc |-> "idle"]

\* addLayer(layer), called with an id not in the collection
AddLayer(layer) ==
  /\ Len(layers) < MaxLayers
  /\ layer.id \notin LayerIds(layers)
  /\ layers' = addLayerFn(layers, layer)
  /\ UNCHANGED selectedLayerId
  /\ lastOp' = [op |-> "addLayer", layer |-> layer]
  /\ UNCHANGED outside

\* updateLayer(id, updates); geometry is read by no store operation, so the
\* exploration keeps at most one layer away from its initial geometry
UpdateLayer(id, updates) ==
  /\ \A k \in 1..Len(layers) : layers[k].id # id => InitialGeometry(layers[k])
  /\ layers' = updateLayerFn(layers, id, updates)
  /\ UNCHANGED selectedLayerId
  /\ lastOp' = [op |-> "updateLayer", id |-> id, updates |-> updates]
  /\ UNCHANGED outside

\* selectLayer that ignores an id naming no layer
SelectLayer_OnlyPresent(v) ==
  /\ selectedLayerId' = IF v = null \/ v \in PresentIds(layers)
                        THEN v ELSE selectedLayerId
  /\ UNCHANGED layers
  /\ lastOp' = [op |-> "selectLayer", id |-> v]
  /\ UNCHANGED outside

\* selectLayer(v)
SelectLayer(v) ==
  /\ selectedLayerId' = v
  /\ UNCHANGED layers
  /\ lastOp' = [op |-> "selectLayer", id |-> v]
  /\ UNCHANGED outside

\* reorderLayers(startIndex, endIndex)
ReorderLayers(startIndex, endIndex) ==
  /\ layers' = reorderLayersFn(layers, startIndex, endIndex)
  /\ UNCHANGED selectedLayerId
  /\ lastOp' = [op |-> "reorderLayers", startIndex |-> startIndex,
                endIndex |-> endIndex,
                ranked |-> \A k \in 1..Len(layers) : layers[k].zIndex = Len(layers) - k]
  /\ UNCHANGED outside

\* deleteSelectedLayer that leaves the selection as it was
DeleteSelectedLayer_KeepsSelection ==
  /\ layers' = deleteSelectedFn(layers, selectedLayerId)
  /\ selectedLayerId' = selectedLayerId
  /\ lastOp' = [op |-> "deleteSelectedLayer", selected |-> selectedLayerId,
                count |-> Len(layers)]
  /\ UNCHANGED outside

\* deleteSelectedLayer that clears the selection only when a layer was removed
DeleteSelectedLayer_ClearsIfRemoved ==
  /\ layers' = deleteSelectedFn(layers, selectedLayerId)
  /\ selectedLayerId' = IF selectedLayerId \in PresentIds(layers)
                        THEN null ELSE selectedLayerId
  /\ lastOp' = [op |-> "deleteSelectedLayer", selected |-> selectedLayerId,
                count |-> Len(layers)]
  /\ UNCHANGED outside

\* deleteSelectedLayer()
DeleteSelectedLayer ==
  /\ layers' = deleteSelectedFn(layers, selectedLayerId)
  /\ selectedLayerId' = null
  /\ lastOp' = [op |-> "deleteSelectedLayer", selected |-> selectedLayerId,
                count |-> Len(layers)]
  /\ UNCHANGED outside

Next ==
  \/ \E id \in Ids, z \in PassedZ : AddLayer(NewLayer(id, z))
  \/ \E id \in LayerIds(layers), u \in GeometryUpdates : UpdateLayer(id, u)
  \/ \E v \in {null} \cup {Some(i) : i \in Ids} : SelectLayer(v)
  \/ \E i \in 0..(Len(layers) - 1), j \in 0..(Len(layers) - 1) : ReorderLayers(i, j)
  \/ DeleteSelectedLayer

Spec == Init /\ [][Next]_vars

----------------------------------------------------------------------------
(* The store with stale geometry events: a drag stop or a resize of a      *)
(* layer that is no longer in the collection (ResizableImage's callbacks   *)
(* keep the layer.id they were created with).                              *)

NextStale ==
  \/ Next
  \/ \E id \in Ids \ LayerIds(layers), u \in GeometryUpdates : UpdateLayer(id, u)

SpecStale == Init /\ [][NextStale]_vars

----------------------------------------------------------------------------
(* The store driven outside its callers' contract: updateLayer with an id  *)
(* that names no layer or with an id field among the updates (the          *)
(* parameter type is Partial<Layer>), reorderLayers with any index.        *)

\* updates that carry an id field
IdUpdates == {[id |-> i] : i \in Ids}

\* indices reorderLayers may be handed for a collection of length n
AnyIndex(n) == (0 - n - 1)..(n + 1)

\* updateLayer(id, updates) with any id and any partial layer
UpdateLayerAny(id, updates) ==
  /\ layers' = updateLayerFn(layers, id, updates)
  /\ UNCHANGED selectedLayerId
  /\ lastOp' = [op |-> "updateLayer", id |-> id, updates |-> updates]
  /\ UNCHANGED outside

\* reorderLayers(startIndex, endIndex) with any integer indices; a call
\* that would grow the collection is explored up to MaxLayers elements
ReorderLayersAny(startIndex, endIndex) ==
  /\ Len(reorderLayersFn(layers, startIndex, endIndex)) <= MaxLayers
  /\ ReorderLayers(startIndex, endIndex)

NextAny ==
  \/ \E id \in Ids, z \in PassedZ : AddLayer(NewLayer(id, z))
  \/ \E id \in Ids \ LayerIds(layers), u \in GeometryUpdates : UpdateLayerAny(id, u)
  \/ \E id \in LayerIds(layers), u \in IdUpdates : UpdateLayerAny(id, u)
  \/ \E v \in {null} \cup {Some(i) : i \in Ids} : SelectLayer(v)
  \/ \E i \in AnyIndex(Len(layers)), j \in AnyIndex(Len(layers)) : ReorderLayersAny(i, j)
  \/ DeleteSelectedLayer

SpecAny == Init /\ [][NextAny]_vars

----------------------------------------------------------------------------
(* The relay: POST of src/app/api/generate-image/route.ts, one request at  *)
(* a time, step by step. relay.apiKey is process.env.FAL_AI_API_KEY,       *)
(* relay.calls counts the outbound fetches of the request being served.    *)

storeVars == <<layers, selectedLayerId, lastOp>>

\* values of process.env.FAL_AI_API_KEY: unset, empty, set
ApiKeys == {null, Some(""), Some("secret")}

Prompts == {"a cat", "a dog"}

\* the size categories the form offers
Sizes == {"square_hd", "portrait_4_3", "portrait_16_9", "landscape_4_3", "landscape_16_9"}

\* what the provider may answer: a result, or a failure status with a
\* JSON error body
ProviderResponses ==
  {[status |-> 200, body |-> [images |-> <<[url |-> "url"]>>]]} \cup
  {[status |-> st, body |-> [detail |-> "provider error"]] : st \in {401, 422, 500}}

\* if (apiKey) in place of if (!apiKey)
KeyMissing_Inverted(apiKey) == ~(apiKey = null \/ apiKey = Some(""))

\* !apiKey
KeyMissing(apiKey) == apiKey = null \/ apiKey = Some("")

\* what the framework answers when the handler throws
UnhandledError == [status |-> 500, body |-> [unhandled |-> TRUE]]

InitRelay ==
  /\ layers = <<>>
  /\ selectedLayerId = null
  /\ lastOp = [op |-> "init"]
  /\ loading = FALSE
  /\ submit = [pc |-> "idle"]
  /\ relay \in {[pc |-> "idle", apiKey |-> k] : k \in ApiKeys}

\* const { prompt, size } = await request.json(); const apiKey = ...
RelayReceive(prompt, size) ==
  /\ relay.pc = "idle"
  /\ relay' = [pc |-> "parsed", apiKey |-> relay.apiKey, prompt |-> prompt,
               size |-> size, calls |-> 0]
  /\ UNCHANGED <<storeVars, loading, submit>>

\* if (!apiKey) return NextResponse.json({ error: ... }, { status: 500 })
RelayKeyMissing ==
  /\ relay.pc = "parsed"
  /\ KeyMissing(relay.apiKey)
  /\ relay' = [relay EXCEPT !.pc = "responded"] @@
              [response |-> [status |-> 500, body |-> [error |-> "API key not found"]]]
  /\ UNCHANGED <<storeVars, loading, submit>>

\* const response = await fetch(provider, { ... }): the call is issued
RelayFetch ==
  /\ relay.pc = "parsed"
  /\ ~KeyMissing(relay.apiKey)
  /\ relay' = [relay EXCEPT !.pc = "fetching", !.calls = @ + 1] @@
              [outbound |-> [prompt |-> relay.prompt, image_size |-> relay.size,
                             authorization |-> <<"Key", relay.apiKey>>]]
  /\ UNCHANGED <<storeVars, loading, submit>>

\* the provider answers with a status and a JSON body; fetch resolves
ProviderAnswers(answer) ==
  /\ relay.pc = "fetching"
  /\ relay' = [relay EXCEPT !.pc = "fetched"] @@ [provider |-> answer]
  /\ UNCHANGED <<storeVars, loading, submit>>

\* the provider is unreachable or its body is not JSON: fetch or
\* response.json() rejects and the handler throws
ProviderFails ==
  /\ relay.pc = "fetching"
  /\ relay' = [relay EXCEPT !.pc = "responded"] @@ [response |-> UnhandledError]
  /\ UNCHANGED <<storeVars, loading, submit>>

\* const data = await response.json(); return NextResponse.json(data)
RelayRespond ==
  /\ relay.pc = "fetched"
  /\ relay' = [relay EXCEPT !.pc = "responded"] @@
              [response |-> [status |-> 200, body |-> relay.provider.body]]
  /\ UNCHANGED <<storeVars, loading, submit>>

\* the response is sent; the handler is ready for the next request
RelayDone ==
  /\ relay.pc = "responded"
  /\ relay' = [pc |-> "idle", apiKey |-> relay.apiKey]
  /\ UNCHANGED <<storeVars, loading, submit>>

NextRelay ==
  \/ \E p \in Prompts, z \in Sizes : RelayReceive(p, z)
  \/ RelayKeyMissing
  \/ RelayFetch
  \/ \E a \in ProviderResponses : ProviderAnswers(a)
  \/ ProviderFails
  \/ RelayRespond
  \/ RelayDone

SpecRelay == InitRelay /\ [][NextRelay]_vars

----------------------------------------------------------------------------
(* The page component: the user's events on the layer list and the canvas  *)
(* interleaved with one handleSubmit call (the submit button is disabled   *)
(* while loading). submit.len is layers.length of the render whose         *)
(* handleSubmit closure is running, submit.outcome how the network call    *)
(* ended, submit.last the outcome of the call handled last.                *)

\* largest collection explored while a generation request can be made
MaxCanvas == MaxLayers - 1

\* how fetch and response.json() can end: a body with images[0].url, a JSON
\* body without images, a rejection
Outcomes == {"images", "error", "rejected"}

\* setLoading(false) inside the try block only, not in a finally
LoadingAfter_TryOnly(outcome) == outcome # "images"

\* finally { setLoading(false) }
LoadingAfter(outcome) == FALSE

\* the form is submitted: setLoading(true), the fetch is issued
HandleSubmit ==
  /\ submit.pc = "idle"
  /\ loading = FALSE
  /\ Len(layers) < MaxCanvas
  /\ loading' = TRUE
  /\ submit' = [pc |-> "fetching", len |-> Len(layers)]
  /\ UNCHANGED <<storeVars, relay>>

\* the network call ends
FetchSettles(outcome) ==
  /\ submit.pc = "fetching"
  /\ submit' = [pc |-> "settled", len |-> submit.len, outcome |-> outcome]
  /\ UNCHANGED <<storeVars, loading, relay>>

\* the rest of the try block: the layer is built from data.images[0].url
\* with id Date.now() and zIndex layers.length, addLayer(newLayer), finally
HandleSubmitAdds(id) ==
  /\ submit.pc = "settled"
  /\ submit.outcome = "images"
  /\ id \notin LayerIds(layers)
  /\ layers' = addLayerFn(layers, NewLayer(id, submit.len))
  /\ lastOp' = [op |-> "addLayer", layer |-> NewLayer(id, submit.len)]
  /\ loading' = LoadingAfter(submit.outcome)
  /\ submit' = [pc |-> "idle", last |-> submit.outcome]
  /\ UNCHANGED <<selectedLayerId, relay>>

\* reading data.images[0] throws or the fetch rejected: catch, finally
HandleSubmitCatches ==
  /\ submit.pc = "settled"
  /\ submit.outcome # "images"
  /\ loading' = LoadingAfter(submit.outcome)
  /\ submit' = [pc |-> "idle", last |-> submit.outcome]
  /\ UNCHANGED <<storeVars, relay>>

\* the continuation of handleSubmit after its awaits
HandleSubmitResumes ==
  \/ \E id \in Ids : HandleSubmitAdds(id)
  \/ HandleSubmitCatches

\* LayerItem onClick, ResizableImage onClick
ClickLayer(k) == SelectLayer(Some(layers[k].id))

\* handleBackgroundClick
ClickBackground == SelectLayer(null)

\* handleDragStop, handleResize: Rnd moves and resizes the selected layer only
DragOrResize(k, u) ==
  /\ Some(layers[k].id) = selectedLayerId
  /\ UpdateLayer(layers[k].id, u)

\* onDragEnd with a destination
OnDragEnd(i, j) == ReorderLayers(i, j)

\* useHotkeys('delete', deleteSelectedLayer)
PressDelete == DeleteSelectedLayer

NextUI ==
  \/ HandleSubmit
  \/ \E o \in Outcomes : FetchSettles(o)
  \/ HandleSubmitResumes
  \/ \E k \in 1..Len(layers) : ClickLayer(k)
  \/ ClickBackground
  \/ \E k \in 1..Len(layers), u \in GeometryUpdates : DragOrResize(k, u)
  \/ \E i \in 0..(Len(layers) - 1), j \in 0..(Len(layers) - 1) : OnDragEnd(i, j)
  \/ PressDelete

\* the event loop runs the continuation of a settled promise
SpecUI == Init /\ [][NextUI]_vars /\ WF_vars(HandleSubmitResumes)

----------------------------------------------------------------------------
(* Vocabulary of the properties *)

\* a layer without its stack order
StripZ(l) == [f \in (DOMAIN l) \ {"zIndex"} |-> l[f]]

\* the sequence s without its element at position k
Without(s, k) == [n \in 1..(Len(s) - 1) |-> IF n < k THEN s[n] ELSE s[n + 1]]

\* the ids of a collection in list order, null where a layer has none
IdSeq(ls) == [k \in 1..Len(ls) |-> IdOf(ls[k])]

\* how many layers of a collection carry the id i
CountId(ls, i) == Cardinality({k \in 1..Len(ls) : IdOf(ls[k]) = Some(i)})

\* the fields of a complete layer
LayerFields == DOMAIN NewLayer(1, 0)

\* the selection is null or names a layer of the collection
SelectionValid == selectedLayerId = null \/ selectedLayerId \in PresentIds(layers)

----------------------------------------------------------------------------
(* Properties of the layer store *)

\* C1: in every reachable state the zIndex values of the layers of the
\* collection are pairwise distinct.
C1_StackOrderDistinct ==
  \A k, m \in 1..Len(layers) : k # m => layers[k].zIndex # layers[m].zIndex

\* C2 (as claimed): in every reachable state the selection is null or the id
\* of a layer of the collection.
C2_SelectionNeverDangles == SelectionValid

\* the step is a selectLayer call whose argument names no layer
SelectsAbsentId ==
  /\ lastOp'.op = "selectLayer"
  /\ lastOp'.id # null
  /\ lastOp'.id \notin PresentIds(layers)

\* C2 (amended): every store operation other than selectLayer called with an
\* id that is not in the collection takes a state whose selection is null or
\* present to a state whose selection is null or present; the empty store has
\* a null selection.
C2_SelectionValidPreserved ==
  [][(SelectionValid /\ ~SelectsAbsentId) => SelectionValid']_vars

\* C2 witness: deleteSelectedLayer removed the selected layer from a larger
\* collection and the selection is null.
C2_Witness ==
  /\ lastOp.op = "deleteSelectedLayer"
  /\ lastOp.selected # null
  /\ lastOp.count = Len(layers) + 1
  /\ Len(layers) >= 1
  /\ selectedLayerId = null

\* C3: list order is the inverse of paint order: a layer earlier in the list
\* has a strictly greater zIndex than every layer later in the list.
C3_ListOrderInversePaintOrder ==
  \A k, m \in 1..Len(layers) : k < m => layers[k].zIndex > layers[m].zIndex

\* C4: immediately after addLayer(L), L.zIndex is strictly greater than the
\* zIndex of every other layer.
C4_AddedLayerOnTop ==
  lastOp.op = "addLayer" =>
    \A k \in 2..Len(layers) : layers[1].zIndex > layers[k].zIndex

\* C5: addLayer(L) on a collection of size N yields size N + 1, first element
\* L with zIndex = N whatever zIndex was passed, then the previous layers in
\* their order with all fields unchanged; the selection is unchanged.
C5_AddLayerEffect ==
  [][lastOp'.op = "addLayer" =>
       /\ Len(layers') = Len(layers) + 1
       /\ layers'[1].zIndex = Len(layers)
       /\ StripZ(layers'[1]) = StripZ(lastOp'.layer)
       /\ DOMAIN layers'[1] = DOMAIN lastOp'.layer
       /\ \A k \in 1..Len(layers) : layers'[k + 1] = layers[k]
       /\ selectedLayerId' = selectedLayerId]_vars

\* C5 witness: a third layer was added while a layer was selected, and the
\* zIndex it got differs from the one the caller passed.
C5_Witness ==
  /\ lastOp.op = "addLayer"
  /\ Len(layers) = 3
  /\ layers[1].id = lastOp.layer.id
  /\ layers[1].zIndex # lastOp.layer.zIndex
  /\ selectedLayerId # null

\* C6: after reorderLayers(i, j) with in-range indices on a collection of
\* size N, the layer at list position k has zIndex = N - 1 - k, k in [0, N).
C6_ReorderInverseRank ==
  lastOp.op = "reorderLayers" =>
    \A k \in 1..Len(layers) : layers[k].zIndex = Len(layers) - 1 - (k - 1)

\* C6 witness: a layer of a three-layer collection whose zIndex values were
\* not the inverse ranking was moved to another position.
C6_Witness ==
  /\ lastOp.op = "reorderLayers"
  /\ Len(layers) = 3
  /\ lastOp.startIndex # lastOp.endIndex
  /\ ~lastOp.ranked

\* C7: reorderLayers(i, j) with in-range indices is a single-item move: the
\* layer at position i ends at position j, the others keep their relative
\* order, size and ids are unchanged, only zIndex may change in any layer,
\* and the selection is unchanged.
C7_ReorderIsMove ==
  [][lastOp'.op = "reorderLayers" =>
       LET i == lastOp'.startIndex + 1
           j == lastOp'.endIndex + 1
       IN /\ Len(layers') = Len(layers)
          /\ StripZ(layers'[j]) = StripZ(layers[i])
          /\ \A n \in 1..(Len(layers) - 1) :
               StripZ(Without(layers', j)[n]) = StripZ(Without(layers, i)[n])
          /\ LayerIds(layers') = LayerIds(layers)
          /\ selectedLayerId' = selectedLayerId]_vars

\* C7 witness: in a three-layer collection with a selection, a layer was
\* moved across another one between the two ends of the list.
C7_Witness ==
  /\ lastOp.op = "reorderLayers"
  /\ Len(layers) = 3
  /\ lastOp.startIndex = 0
  /\ lastOp.endIndex = 2
  /\ selectedLayerId # null

\* C8: after deleteSelectedLayer() the selection is null, whatever it was.
C8_DeleteClearsSelection ==
  lastOp.op = "deleteSelectedLayer" => selectedLayerId = null

\* C8 witness: deleteSelectedLayer ran with a selection naming no layer of a
\* non-empty collection, and removed nothing.
C8_Witness ==
  /\ lastOp.op = "deleteSelectedLayer"
  /\ lastOp.selected # null
  /\ lastOp.count = Len(layers)
  /\ Len(layers) >= 1
  /\ selectedLayerId = null

\* C9: deleteSelectedLayer() removes exactly the layer whose id equals the
\* selection; the remaining layers keep their order and every field; with a
\* null selection or one naming no layer the collection is unchanged.
C9_DeleteRemovesOnlySelected ==
  [][lastOp'.op = "deleteSelectedLayer" =>
       LET hit == {k \in 1..Len(layers) : Some(layers[k].id) = selectedLayerId}
       IN IF hit = {}
          THEN layers' = layers
          ELSE \E k \in hit : layers' = Without(layers, k)]_vars

\* C9 witness: the selected layer was removed from a three-layer collection
\* and a remaining layer still carries the zIndex 2 it had before.
C9_Witness ==
  /\ lastOp.op = "deleteSelectedLayer"
  /\ lastOp.count = 3
  /\ Len(layers) = 2
  /\ lastOp.selected \notin PresentIds(layers)
  /\ \E k \in 1..2 : layers[k].zIndex = 2

\* C10: updateLayer(id, fields) for a present id changes only the given
\* fields of the layer matching id: its other fields, every other layer, the
\* list order, the size and the selection are unchanged.
C10_UpdateIsolation ==
  [][lastOp'.op = "updateLayer" =>
       LET id == lastOp'.id
           u == lastOp'.updates
       IN /\ Len(layers') = Len(layers)
          /\ \A k \in 1..Len(layers) :
               IF layers[k].id = id
               THEN /\ DOMAIN layers'[k] = DOMAIN layers[k]
                    /\ \A f \in (DOMAIN layers[k]) \ (DOMAIN u) :
                         layers'[k][f] = layers[k][f]
                    /\ \A f \in DOMAIN u : layers'[k][f] = u[f]
               ELSE layers'[k] = layers[k]
          /\ selectedLayerId' = selectedLayerId]_vars

\* C10 witness: in a three-layer collection with a selection, the middle
\* layer was dragged to (10, 10) and kept its size.
C10_Witness ==
  /\ lastOp.op = "updateLayer"
  /\ Len(layers) = 3
  /\ layers[2].id = lastOp.id
  /\ layers[2].x = 10 /\ layers[2].y = 10 /\ layers[2].width = 200
  /\ InitialGeometry(layers[1]) /\ InitialGeometry(layers[3])
  /\ selectedLayerId # null

\* C11: updateLayer(id, fields) with an id that matches no layer leaves the
\* layer collection and the selection unchanged.
C11_UpdateAbsentIsNoOp ==
  [][(lastOp'.op = "updateLayer" /\ lastOp'.id \notin LayerIds(layers)) =>
       (layers' = layers /\ selectedLayerId' = selectedLayerId)]_vars

\* C11 witness: a resize arrived for an id that names none of the two or
\* more layers of the collection, one of which is selected.
C11_Witness ==
  /\ lastOp.op = "updateLayer"
  /\ lastOp.id \notin LayerIds(layers)
  /\ "width" \in DOMAIN lastOp.updates
  /\ Len(layers) >= 2
  /\ selectedLayerId \in PresentIds(layers)
  /\ \A k \in 1..Len(layers) : InitialGeometry(layers[k])

\* C12: when every addLayer is called with an id not in the collection, the
\* ids of the layers are pairwise distinct in every reachable state.
C12_IdsDistinct ==
  \A i \in Ids : CountId(layers, i) <= 1

\* C13: no store operation changes the id of a layer that stays in the
\* collection: update and select keep the id at every position, add keeps
\* the ids behind the new layer, reorder keeps how often each id occurs,
\* delete keeps the ids of the layers it does not remove.
C13_IdNeverMutated ==
  [][/\ lastOp'.op \in {"updateLayer", "selectLayer"} => IdSeq(layers') = IdSeq(layers)
     /\ lastOp'.op = "addLayer" => Tail(IdSeq(layers')) = IdSeq(layers)
     /\ lastOp'.op = "reorderLayers" =>
          \A i \in Ids : CountId(layers', i) = CountId(layers, i)
     /\ lastOp'.op = "deleteSelectedLayer" =>
          LET Stays(v) == v # selectedLayerId
          IN IdSeq(layers') = SelectSeq(IdSeq(layers), Stays)]_vars

\* C14: selectLayer(v) sets selectedLayerId to v, for null, for a present
\* id and for an id not in the collection, and leaves the collection as is.
C14_SelectUnconditional ==
  [][lastOp'.op = "selectLayer" =>
       (selectedLayerId' = lastOp'.id /\ layers' = layers)]_vars

\* C14 witness: selectLayer was called with an id that names none of the
\* layers of a non-empty collection, and the selection is that id.
C14_Witness ==
  /\ lastOp.op = "selectLayer"
  /\ lastOp.id # null
  /\ lastOp.id \notin PresentIds(layers)
  /\ selectedLayerId = lastOp.id
  /\ Len(layers) >= 1

\* C19: reorderLayers with any integer indices keeps the size of the
\* collection and the set of layer ids, and every element stays a complete
\* layer with an id.
C19_ReorderNeverCorrupts ==
  [][lastOp'.op = "reorderLayers" =>
       /\ Len(layers') = Len(layers)
       /\ LayerIds(layers') = LayerIds(layers)
       /\ \A k \in 1..Len(layers') : DOMAIN layers'[k] = LayerFields]_vars

\* no credential is configured: the variable is unset or empty
KeyAbsent == relay.apiKey \in {null, Some("")}

C16_ProviderFailurePassedThrough ==
  (relay.pc = "responded" /\ "provider" \in DOMAIN relay /\ relay.provider.status >= 400) =>
    /\ relay.response.body = relay.provider.body
    /\ relay.response.status = relay.provider.status

\* the step is the continuation of handleSubmit after the network call ended
ResumeStep == submit.pc = "settled" /\ submit'.pc = "idle"

\* C17: every request whose network call completes eventually leaves the
\* loading flag false; a layer is added only when the response contains
\* images[0].url; on a failure the collection and the selection are as
\* they were.
C17_RequestCompletes ==
  /\ (submit.pc = "settled") ~> (loading = FALSE)
  /\ [][ResumeStep => loading' = FALSE]_vars
  /\ [][Len(layers') > Len(layers) => (ResumeStep /\ submit.outcome = "images")]_vars
  /\ [][(ResumeStep /\ submit.outcome # "images") =>
          (layers' = layers /\ selectedLayerId' = selectedLayerId)]_vars

\* C17 witness: a request that got an error body has been handled while a
\* layer was selected: nothing is in flight and loading is false.
C17_Witness ==
  /\ submit.pc = "idle"
  /\ "last" \in DOMAIN submit
  /\ submit.last = "error"
  /\ loading = FALSE
  /\ Len(layers) >= 1
  /\ selectedLayerId \in PresentIds(layers)

\* C18: whatever store operations ran between submission and response, the
\* layer inserted on completion is first in the list and its zIndex is the
\* size of the collection at the moment of insertion, not the size captured
\* at submission.
C18_InsertUsesCurrentSize ==
  [][(ResumeStep /\ submit.outcome = "images") =>
       /\ layers'[1].zIndex = Len(layers)
       /\ layers'[1].id \notin LayerIds(layers)
       /\ Tail(layers') = layers]_vars

\* C18 witness: a layer was deleted while the request was in flight: the
\* inserted layer was built with a larger zIndex than the one it got.
C18_Witness ==
  /\ lastOp.op = "addLayer"
  /\ layers[1].id = lastOp.layer.id
  /\ lastOp.layer.zIndex > layers[1].zIndex
  /\ layers[1].zIndex = Len(layers) - 1
====
